---- MODULE Spec2Model ----
(***************************************************************************)
(* Model of running/run.py: the Runner class (workspace preparation,       *)
(* artifact staging, command execution with a before/after walk of the     *)
(* workspace) and the command-line entry point main().                     *)
(*                                                                         *)
(* A path is a sequence of components; an absolute path starts with "/".   *)
(* The filesystem is a function from the absolute paths that exist to      *)
(* nodes [kind, data, target].  A log line is a record [tag, paths, text]. *)
(* The console echo of log_message (verbose) writes no state that the      *)
(* properties below read and is left out.                                  *)
(***************************************************************************)
EXTENDS Naturals, Sequences, FiniteSets, TLC

VARIABLES fs, pcwd, pc, err, args, call, self, spawned, preRun, report, beh, disk0

vars == <<fs, pcwd, pc, err, args, call, self, spawned, preRun, report, beh, disk0>>

(* ------------------------------ bounds -------------------------------- *)
MaxArtifacts == 2
MaxOut == 1

(* ------------------------------ paths --------------------------------- *)
None == <<>>
Cwd0 == <<"/", "home">>
TmpRoot == <<"/", "tmp">>
TmpName == "tmpdir"
LogName == "run_log_T.txt"
WorkspaceName == "run_workspace_T"

IsAbs(p) == Len(p) > 0 /\ p[1] = "/"

join(a, b) == IF IsAbs(b) THEN b ELSE a \o b

basename(p) == IF Len(p) = 0 THEN None ELSE <<p[Len(p)]>>

Parent(p) == SubSeq(p, 1, Len(p) - 1)

normpath(p) == SelectSeq(p, LAMBDA c : c # ".")

abspath(cwd, p) == normpath(join(cwd, p))

IsPrefix(s, t) == Len(s) <= Len(t) /\ SubSeq(t, 1, Len(s)) = s

IsUnder(p, d) == Len(d) < Len(p) /\ IsPrefix(d, p)

(* ---------------------------- filesystem ------------------------------ *)
FileNode(d) == [kind |-> "file", data |-> d, target |-> None]
DirNode == [kind |-> "dir", data |-> <<>>, target |-> None]
LinkNode(t) == [kind |-> "link", data |-> <<>>, target |-> t]

\* The kind a path has once a symbolic link at it is followed.
Stat(f, p) ==
    IF p \notin DOMAIN f THEN "absent"
    ELSE IF f[p].kind = "link"
         THEN (IF f[p].target \in DOMAIN f THEN f[f[p].target].kind ELSE "absent")
         ELSE f[p].kind

exists(f, p) == Stat(f, p) # "absent"
isdir(f, p) == Stat(f, p) = "dir"

Put(f, p, n) == [q \in DOMAIN f \cup {p} |-> IF q = p THEN n ELSE f[q]]

Remove(f, p) == [q \in DOMAIN f \ {p} |-> f[q]]

Prefixes(p) == {SubSeq(p, 1, i) : i \in 1..Len(p)}

\* os.makedirs: every missing ancestor and the leaf become directories; a
\* component that exists and is not a directory makes it raise.
makedirs(f, p) ==
    IF \E q \in Prefixes(p) : q \in DOMAIN f /\ ~isdir(f, q)
    THEN [fs |-> f, err |-> "OSError"]
    ELSE [fs |-> [q \in DOMAIN f \cup Prefixes(p) |->
                    IF q \in DOMAIN f THEN f[q] ELSE DirNode],
          err |-> "none"]

\* check_and_create_dir without the isdir test: whatever exists is accepted.
check_and_create_dir_Unchecked(f, cwd, dir) ==
    IF exists(f, join(cwd, dir)) THEN [fs |-> f, err |-> "none"]
    ELSE makedirs(f, join(cwd, dir))

check_and_create_dir(f, cwd, dir) ==
    LET p == join(cwd, dir) IN
    IF exists(f, p)
    THEN (IF ~isdir(f, p) THEN [fs |-> f, err |-> "ValueError"]
                          ELSE [fs |-> f, err |-> "none"])
    ELSE makedirs(f, p)

(* ------------------------------ logging ------------------------------- *)
\* paths: the paths a line prints; text: the characters of program output.
Line(tag, paths, text) == [tag |-> tag, paths |-> paths, text |-> text]

\* open(path, "a") followed by writes: the file is created when absent and
\* the lines go after what it already holds.
AppendFile(f, p, lines) ==
    IF p \in DOMAIN f /\ f[p].kind = "file"
    THEN [f EXCEPT ![p].data = @ \o lines]
    ELSE Put(f, p, FileNode(lines))

log_message(f, cwd, s, line) == AppendFile(f, join(cwd, s.log_filename), <<line>>)

(* ------------------------- artifact staging --------------------------- *)
\* The file a path names once a symbolic link at it is followed.
Real(f, p) == IF p \in DOMAIN f /\ f[p].kind = "link" THEN f[p].target ELSE p

\* os.symlink(source, dest): refuses a destination that is already there.
symlink(f, source, dest) ==
    IF dest \in DOMAIN f THEN [fs |-> f, err |-> "FileExistsError"]
    ELSE IF ~isdir(f, Parent(dest)) THEN [fs |-> f, err |-> "OSError"]
    ELSE [fs |-> Put(f, dest, LinkNode(source)), err |-> "none"]

\* shutil.copy2(source, dest): copies one regular file; a destination that
\* is a directory receives the file under the source's base name.
copy2(f, source, dest) ==
    LET dst == IF isdir(f, dest) THEN dest \o basename(source) ELSE dest
        src == Real(f, source)
        out == Real(f, dst)
    IN  IF exists(f, dst) /\ out = src THEN [fs |-> f, err |-> "SameFileError"]
        ELSE IF isdir(f, source) THEN [fs |-> f, err |-> "IsADirectoryError"]
        ELSE IF isdir(f, dst) THEN [fs |-> f, err |-> "IsADirectoryError"]
        ELSE IF ~isdir(f, Parent(out)) THEN [fs |-> f, err |-> "OSError"]
        ELSE [fs |-> Put(f, out, FileNode(f[src].data)), err |-> "none"]

\* One iteration of the artifact loop of Runner.initialize.
StageOne(f, cwd, pcw, dir, cfg, artifact) ==
    LET source_path == abspath(cwd, artifact)
        dest_path == join(pcw, join(dir, basename(artifact)))
    IN  IF exists(f, source_path)
        THEN (IF cfg.symlink_to_artifacts
              THEN symlink(f, source_path, dest_path)
              ELSE copy2(f, source_path, dest_path))
        ELSE [fs |-> f, err |-> "FileNotFoundError"]

\* The artifact loop from index i on; it stops at the first exception.
RECURSIVE StageFrom(_, _, _, _, _, _)
StageFrom(f, cwd, pcw, dir, cfg, i) ==
    IF i > Len(cfg.artifacts) THEN [fs |-> f, err |-> "none"]
    ELSE LET r == StageOne(f, cwd, pcw, dir, cfg, cfg.artifacts[i])
         IN  IF r.err # "none" THEN r
             ELSE StageFrom(r.fs, cwd, pcw, dir, cfg, i + 1)

(* --------------------------- initialization --------------------------- *)
Get(cfg, key, default) == IF key \in DOMAIN cfg THEN cfg[key] ELSE default

\* The log directory if a missing value meant the working directory.
ResolveLogDir_Cwd(cfg, cwd) ==
    LET log_dir == Get(cfg, "log_dir", cwd)
    IN  IF log_dir = None THEN cwd ELSE join(cwd, log_dir)

\* The log directory Runner.initialize resolves.
ResolveLogDir(cfg, cwd) ==
    LET log_dir == Get(cfg, "log_dir", cwd)
    IN  IF log_dir = None THEN abspath(cwd, join(cwd, <<"work">>))
        ELSE join(cwd, log_dir)

\* The workspace choice if every branch changed the working directory.
ChooseWorkspace_AlwaysChdir(directory, cfg, log_dir) ==
    IF directory # None
    THEN [dir |-> directory, how |-> "check", chdir |-> TRUE]
    ELSE IF Get(cfg, "persist", FALSE)
         THEN [dir |-> log_dir \o <<WorkspaceName>>, how |-> "check", chdir |-> TRUE]
         ELSE [dir |-> TmpRoot \o <<TmpName>>, how |-> "mkdtemp", chdir |-> TRUE]

\* The branch of Runner.initialize that chooses the workspace: where it
\* is, how it comes to exist and whether the process changes into it.
ChooseWorkspace(directory, cfg, log_dir) ==
    IF directory # None
    THEN [dir |-> directory, how |-> "check", chdir |-> FALSE]
    ELSE IF Get(cfg, "persist", FALSE)
         THEN [dir |-> log_dir \o <<WorkspaceName>>, how |-> "check", chdir |-> TRUE]
         ELSE [dir |-> TmpRoot \o <<TmpName>>, how |-> "mkdtemp", chdir |-> TRUE]

\* tempfile.mkdtemp(): a directory that did not exist before.
mkdtemp(f) == [fs |-> Put(f, TmpRoot \o <<TmpName>>, DirNode), err |-> "none"]

Outcome(f, pcw, s, e) == [fs |-> f, pcwd |-> pcw, self |-> s, err |-> e]

\* Runner.__init__ followed by Runner.initialize, from filesystem f and
\* working directory cwd.
initialize(f, cwd, command, directory, cfg) ==
    LET s0 == [command |-> command, dir |-> directory, config |-> cfg,
               log_filename |-> None]
        log_dir == ResolveLogDir(cfg, cwd)
        r1 == check_and_create_dir(f, cwd, log_dir)
        s1 == [s0 EXCEPT !.log_filename = log_dir \o <<LogName>>]
        w == ChooseWorkspace(directory, cfg, log_dir)
        r2 == IF w.how = "check" THEN check_and_create_dir(r1.fs, cwd, w.dir)
              ELSE mkdtemp(r1.fs)
        s2 == [s1 EXCEPT !.dir = w.dir]
        pcw == IF w.chdir THEN join(cwd, w.dir) ELSE cwd
        r3 == IF Get(cfg, "artifacts", None) # None
              THEN StageFrom(r2.fs, cwd, pcw, w.dir, cfg, 1)
              ELSE [fs |-> r2.fs, err |-> "none"]
    IN  IF r1.err # "none" THEN Outcome(r1.fs, cwd, s0, r1.err)
        ELSE IF r2.err # "none" THEN Outcome(r2.fs, cwd, s1, r2.err)
        ELSE IF r3.err # "none" THEN Outcome(r3.fs, pcw, s2, r3.err)
        ELSE Outcome(log_message(r3.fs, pcw, s2,
                                 Line("Workspace initiated at", <<w.dir>>, <<>>)),
                     pcw, s2, "none")

(* ------------------------------- walk --------------------------------- *)
\* The entries os.walk(dir) visits: everything below dir that is reached
\* through real directories only (links are listed, never entered).
Walked(f, cwd, dir) ==
    LET top == join(cwd, dir) IN
    IF ~isdir(f, top) THEN {}
    ELSE {q \in DOMAIN f :
            /\ IsUnder(q, top)
            /\ \A i \in (Len(top) + 1)..(Len(q) - 1) : f[SubSeq(q, 1, i)].kind = "dir"}

AsWalked(cwd, dir, q) == dir \o SubSeq(q, Len(join(cwd, dir)) + 1, Len(q))

\* The two sets Runner.run builds from one os.walk of the workspace.
walk(f, cwd, dir) ==
    LET w == Walked(f, cwd, dir) IN
    [files |-> {AsWalked(cwd, dir, q) : q \in {x \in w : ~isdir(f, x)}},
     dirs |-> {AsWalked(cwd, dir, q) : q \in {x \in w : isdir(f, x)}}]

\* list(a_set): every element once, in an order the program does not choose.
RECURSIVE list(_)
list(S) == IF S = {} THEN <<>>
           ELSE LET x == CHOOSE y \in S : TRUE IN <<x>> \o list(S \ {x})

(* ------------------------------ command ------------------------------- *)
\* The programs the operating system can launch; any other command makes
\* subprocess.run raise FileNotFoundError before a process exists.
Executables == {"prog"}

\* bytes.decode() with the default codec (UTF-8, strict): one- and two-byte
\* sequences become code points, anything else raises UnicodeDecodeError.
RECURSIVE decode(_)
decode(b) ==
    IF Len(b) = 0 THEN [ok |-> TRUE, text |-> <<>>]
    ELSE IF b[1] < 128
         THEN LET r == decode(Tail(b))
              IN  [ok |-> r.ok, text |-> <<b[1]>> \o r.text]
    ELSE IF b[1] >= 194 /\ b[1] <= 223 /\ Len(b) >= 2 /\ b[2] >= 128 /\ b[2] <= 191
         THEN LET r == decode(Tail(Tail(b)))
              IN  [ok |-> r.ok, text |-> <<(b[1] - 192) * 64 + (b[2] - 128)>> \o r.text]
    ELSE [ok |-> FALSE, text |-> <<>>]

\* What the launched program may do: a name directly inside the workspace
\* is created, made a directory (with a file in it), deleted or rewritten.
\* The program leaves the Runner's own log file alone.
OpKinds == {"create", "mkdir", "delete", "modify"}
OpNames == {"a", "old"}
Ops == [op : OpKinds, name : OpNames]

ApplyOp(f, top, logfile, o) ==
    LET p == top \o <<o.name>> IN
    IF ~isdir(f, top) \/ p = logfile THEN f
    ELSE IF o.op = "create"
         THEN (IF p \in DOMAIN f THEN f ELSE Put(f, p, FileNode(<<"new">>)))
    ELSE IF o.op = "mkdir"
         THEN (IF p \in DOMAIN f THEN f
               ELSE Put(Put(f, p, DirNode), p \o <<"f">>, FileNode(<<"new">>)))
    ELSE IF o.op = "delete"
         THEN (IF p \in DOMAIN f /\ f[p].kind # "dir" THEN Remove(f, p) ELSE f)
    ELSE (IF p \in DOMAIN f /\ f[p].kind = "file"
          THEN [f EXCEPT ![p].data = @ \o <<"M">>] ELSE f)

\* The programs tried: no effect, every single step, and the two-step
\* programs that replace a file by a directory, or create one name and
\* delete a name.
Programs ==
    {<<>>} \cup {<<o>> : o \in Ops}
    \cup {<<[op |-> "delete", name |-> n], [op |-> "mkdir", name |-> n]>> : n \in OpNames}
    \cup {<<[op |-> "create", name |-> n], [op |-> "delete", name |-> m]>> :
             n \in OpNames, m \in OpNames}

RECURSIVE ApplyOps(_, _, _, _)
ApplyOps(f, top, logfile, os) ==
    IF Len(os) = 0 THEN f
    ELSE ApplyOps(ApplyOp(f, top, logfile, Head(os)), top, logfile, Tail(os))

SeqsUpTo(S, n) == UNION {[1..k -> S] : k \in 0..n}

StdoutBytes == {<<104, 105>>}
StderrBytes == {<<101, 195, 169>>, <<255>>}

\* One run of the launched program: what it printed, what it did to the
\* workspace and how it ended.
Behaviours ==
    [stdout : SeqsUpTo(StdoutBytes, MaxOut), stderr : {<<>>},
     ops : Programs, returncode : {0}]
    \cup
    [stdout : SeqsUpTo(StdoutBytes, MaxOut), stderr : StderrBytes,
     ops : Programs, returncode : {1}]

NoBehaviour == [stdout |-> <<>>, stderr |-> <<>>, ops |-> <<>>, returncode |-> 0]

(* -------------------------------- run --------------------------------- *)
NoReport == [before_files |-> {}, before_dirs |-> {}, after_files |-> {},
             after_dirs |-> {}, changed_files |-> <<>>, changed_dirs |-> <<>>]

\* The difference taken both ways: deletions are reported too.
Changed_Symmetric(after, before) == (after \ before) \cup (before \ after)

\* No difference taken: everything found after the run is reported.
Changed_Everything(after, before) == after

\* changed_files / changed_dirs of Runner.run
Changed(after, before) == after \ before

\* A bare except: every exception is caught.
Handles_Any(exc) == TRUE

\* The except clause of Runner.run: the exceptions it catches.
Handles(exc) == exc = "CalledProcessError"

\* subprocess.run(..., check=True): what it raises.
Raises(command, returncode) ==
    IF Head(command) \notin Executables THEN "FileNotFoundError"
    ELSE IF returncode # 0 THEN "CalledProcessError"
    ELSE "none"

\* The finally block of Runner.run, entered from filesystem f.
Finally(f, cwd, s, before_files, before_dirs) ==
    LET after == walk(f, cwd, s.dir)
        after_files == after.files
        after_dirs == after.dirs
        changed_files == list(Changed(after_files, before_files))
        changed_dirs == list(Changed(after_dirs, before_dirs))
        f1 == log_message(f, cwd, s, Line("Command side effects:", <<>>, <<>>))
        f2 == log_message(f1, cwd, s,
                  Line("Changed or created files:", changed_files, <<>>))
        f3 == log_message(f2, cwd, s,
                  Line("Changed or created directories:", changed_dirs, <<>>))
    IN  [fs |-> f3,
         report |-> [before_files |-> before_files, before_dirs |-> before_dirs,
                     after_files |-> after_files, after_dirs |-> after_dirs,
                     changed_files |-> changed_files, changed_dirs |-> changed_dirs]]

\* Runner.run when the launched program behaves as b.
run(f, cwd, s, b) ==
    LET logfile == join(cwd, s.log_filename)
        f0 == AppendFile(f, logfile, <<>>)
        before == walk(f0, cwd, s.dir)
        before_files == before.files
        before_dirs == before.dirs
        exc == Raises(s.command, b.returncode)
        launched == exc # "FileNotFoundError"
        \* the child writes its standard output straight to the log
        f1 == IF ~launched THEN f0
              ELSE AppendFile(ApplyOps(f0, join(cwd, s.dir), logfile, b.ops), logfile,
                       [i \in 1..Len(b.stdout) |-> Line("stdout", <<>>, b.stdout[i])])
        d == decode(b.stderr)
        f2 == IF exc = "none"
              THEN AppendFile(f1, logfile,
                       <<Line("Command executed successfully.", <<>>, <<>>)>>)
              ELSE IF Handles(exc)
                   THEN LET f1a == log_message(f1, cwd, s,
                                     Line("Command terminated with error:", <<>>, <<>>))
                        IN  IF d.ok
                            THEN log_message(f1a, cwd, s, Line("stderr", <<>>, d.text))
                            ELSE f1a
              ELSE f1
        e == IF exc = "none" THEN "none"
             ELSE IF Handles(exc) THEN (IF d.ok THEN "none" ELSE "UnicodeDecodeError")
             ELSE exc
        fin == Finally(f2, cwd, s, before_files, before_dirs)
    IN  [fs |-> fin.fs, report |-> fin.report, err |-> e,
         spawned |-> IF launched THEN 1 ELSE 0]

(* ------------------------------- main --------------------------------- *)
NoArgs == [log_dir |-> None, artifacts |-> None, symlink_to_artifacts |-> FALSE,
           persist |-> FALSE, command |-> <<>>]
NoCall == [command |-> <<>>, directory |-> None, config |-> [artifacts |-> None]]
NoSelf == [command |-> <<>>, dir |-> None, config |-> [artifacts |-> None],
           log_filename |-> None]

\* main(): the configuration and the command it hands to Runner.
MainCall(a) ==
    [command |-> IF Head(a.command) = "--" THEN Tail(a.command) ELSE a.command,
     directory |-> None,
     config |-> [log_dir |-> a.log_dir, artifacts |-> a.artifacts,
                 symlink_to_artifacts |-> a.symlink_to_artifacts,
                 persist |-> a.persist]]

(* ---------------------------- initial disk ---------------------------- *)
Kinds == {"absent", "dir", "file"}

BaseDisk ==
    [p \in {<<"/">>, Cwd0, TmpRoot, Cwd0 \o <<"a">>, Cwd0 \o <<"d">>,
            Cwd0 \o <<"d", "x">>} |->
        IF p = Cwd0 \o <<"a">> THEN FileNode(<<"A">>)
        ELSE IF p = Cwd0 \o <<"d", "x">> THEN FileNode(<<"X">>)
        ELSE DirNode]

WithEntry(f, p, kind) ==
    IF kind = "absent" THEN f
    ELSE IF kind = "file" THEN Put(f, p, FileNode(<<"F">>))
    ELSE Put(Put(f, p, DirNode), p \o <<"old">>, FileNode(<<"O">>))

Disk(kLogs, kWs) ==
    WithEntry(WithEntry(BaseDisk, Cwd0 \o <<"logs">>, kLogs), Cwd0 \o <<"ws">>, kWs)

ArtifactNames == {<<"a">>, <<"d">>, <<"m">>}
ArtifactLists == {None} \cup (SeqsUpTo(ArtifactNames, MaxArtifacts) \ {<<>>})

CliArgs ==
    [log_dir : {None, <<"logs">>}, artifacts : ArtifactLists,
     symlink_to_artifacts : BOOLEAN, persist : BOOLEAN,
     command : {<<"--", "prog">>, <<"nosuch">>}]

\* Calls of Runner(command, directory, config) made by a program that
\* imports the module: an explicit directory, log_dir given or left out.
ApiConfigs ==
    [artifacts : ArtifactLists, symlink_to_artifacts : BOOLEAN]
    \cup
    [log_dir : {<<"ws">>, <<"ws", "logs">>}, artifacts : ArtifactLists,
     symlink_to_artifacts : BOOLEAN]

ApiCalls ==
    [command : {<<"prog">>, <<"nosuch">>}, directory : {<<"ws">>}, config : ApiConfigs]

(* ------------------------------ actions ------------------------------- *)
Init ==
    /\ pcwd = Cwd0
    /\ err = "none"
    /\ self = NoSelf
    /\ spawned = 0
    /\ beh = NoBehaviour
    /\ report = NoReport
    /\ \/ /\ pc = "main"
          /\ args \in CliArgs
          /\ call = NoCall
          /\ \E k \in Kinds : disk0 = Disk(k, "absent")
       \/ /\ pc = "call"
          /\ args = NoArgs
          /\ call \in ApiCalls
          /\ \E k \in Kinds : disk0 = Disk("absent", k)
    /\ fs = disk0
    /\ preRun = disk0

\* main() up to the construction of the Runner
Main ==
    /\ pc = "main"
    /\ call' = MainCall(args)
    /\ pc' = "call"
    /\ UNCHANGED <<fs, pcwd, err, args, self, spawned, preRun, report, beh, disk0>>

\* Runner(command, directory, config)
Construct ==
    /\ pc = "call"
    /\ LET r == initialize(fs, pcwd, call.command, call.directory, call.config)
       IN  /\ fs' = r.fs
           /\ pcwd' = r.pcwd
           /\ self' = r.self
           /\ err' = r.err
           /\ pc' = IF r.err = "none" THEN "constructed" ELSE "failed"
           /\ preRun' = r.fs
    /\ UNCHANGED <<args, call, spawned, report, beh, disk0>>

\* runner.run(): the command either cannot be launched, or is launched
\* and behaves in one of the ways of Behaviours.
Run ==
    /\ pc = "constructed"
    /\ \E b \in IF Head(self.command) \in Executables THEN Behaviours
                ELSE {NoBehaviour} :
         LET r == run(fs, pcwd, self, b)
         IN  /\ fs' = r.fs
             /\ report' = r.report
             /\ err' = r.err
             /\ spawned' = spawned + r.spawned
             /\ beh' = IF r.spawned = 1 THEN b ELSE NoBehaviour
             /\ pc' = IF r.err = "none" THEN "done" ELSE "raised"
    /\ UNCHANGED <<pcwd, args, call, self, preRun, disk0>>

Next == Main \/ Construct \/ Run

Spec == Init /\ [][Next]_vars

(* ------------------------- reading the state -------------------------- *)
Constructed == pc \in {"constructed", "done", "raised"}
ConstructionOver == pc \notin {"main", "call"}
RunOver == pc \in {"done", "raised"}

LogFile == self.log_filename
Log == IF LogFile \in DOMAIN fs /\ fs[LogFile].kind = "file" THEN fs[LogFile].data ELSE <<>>
TagsOf(l) == [i \in 1..Len(l) |-> l[i].tag]
HasTag(t) == \E i \in 1..Len(Log) : Log[i].tag = t
LastLines(n) == SubSeq(Log, Len(Log) - n + 1, Len(Log))

Workspace == join(pcwd, self.dir)
Elems(q) == {q[i] : i \in 1..Len(q)}
Occurrences(q, x) == Cardinality({i \in 1..Len(q) : q[i] = x})

Artifacts == Get(call.config, "artifacts", None)
Symlinking == Get(call.config, "symlink_to_artifacts", FALSE)
ConfiguredLogDir == Get(call.config, "log_dir", Cwd0)
LogDirPath == ResolveLogDir(call.config, Cwd0)
ExplicitPath == join(Cwd0, call.directory)
NotADir(f, p) == p \in DOMAIN f /\ ~isdir(f, p)
\* the log directory and the explicit workspace can both be used
DirectoriesUsable ==
    /\ \A q \in Prefixes(LogDirPath) : ~NotADir(disk0, q)
    /\ call.directory # None => \A q \in Prefixes(ExplicitPath) : ~NotADir(disk0, q)

SideEffectLines ==
    <<Line("Command side effects:", <<>>, <<>>),
      Line("Changed or created files:", report.changed_files, <<>>),
      Line("Changed or created directories:", report.changed_dirs, <<>>)>>

(* ------------------------------- claims ------------------------------- *)

\* C1: when run() executes a command that starts and exits non-zero, run()
\* returns normally and the log ends with "Command terminated with
\* error:", the captured stderr text, then the complete side-effects
\* section (header, changed files, changed directories).
C1_NonZeroExitIsRecovered ==
    (RunOver /\ spawned = 1 /\ beh.returncode # 0) =>
        /\ pc = "done"
        /\ err = "none"
        /\ Len(Log) >= 5
        /\ LastLines(5)[1] = Line("Command terminated with error:", <<>>, <<>>)
        /\ LastLines(5)[2].tag = "stderr"
        /\ SubSeq(LastLines(5), 3, 5) = SideEffectLines

C3_MissingArtifactIsArtifactNotFound ==
    (/\ ConstructionOver
     /\ DirectoriesUsable
     /\ \E i \in 1..Len(Artifacts) : ~exists(disk0, abspath(Cwd0, Artifacts[i])))
    => /\ pc = "failed"
       /\ err = "FileNotFoundError"
       /\ spawned = 0

StagedAs(A, dest) ==
    IF Symlinking
    THEN dest \in DOMAIN fs /\ fs[dest].kind = "link" /\ fs[dest].target = A
    ELSE /\ dest \in DOMAIN fs
         /\ fs[dest].kind = disk0[A].kind
         /\ fs[dest].data = disk0[A].data
         /\ \A q \in DOMAIN disk0 :
               IsUnder(q, A) =>
                  LET c == dest \o SubSeq(q, Len(A) + 1, Len(q))
                  IN  c \in DOMAIN fs /\ fs[c] = disk0[q]

\* C5: every existing artifact A (file or directory) that construction
\* stages is afterwards at <workspace>/basename(A): a copy with identical
\* content (deep for a directory) without symlink_to_artifacts, a symbolic
\* link resolving to A with it.
C5_ArtifactIsStaged ==
    (pc \in {"constructed", "failed"} /\ DirectoriesUsable) =>
        \A i \in 1..Len(Artifacts) :
            (\A j \in 1..i : exists(disk0, abspath(Cwd0, Artifacts[j])))
            => StagedAs(abspath(Cwd0, Artifacts[i]),
                        join(pcwd, join(self.dir, basename(Artifacts[i]))))

\* C6: with no log directory configured (log_dir present with no value) the
\* log directory is the working directory at construction start and the
\* log file is created directly in it; with DIR configured the log file is
\* created in DIR joined onto that working directory.
C6_LogDirDefaultsToCwd ==
    (Constructed /\ "log_dir" \in DOMAIN call.config) =>
        /\ LogFile \in DOMAIN fs
        /\ fs[LogFile].kind = "file"
        /\ Parent(LogFile) = IF ConfiguredLogDir = None THEN Cwd0
                             ELSE join(Cwd0, ConfiguredLogDir)

\* C6 as amended: with log_dir present with no value the log directory is
\* the "work" subdirectory of the working directory at construction start;
\* with DIR configured it is DIR joined onto that working directory; the
\* log file is created directly in the log directory.
C6_LogDirDefaultsToWork ==
    (Constructed /\ "log_dir" \in DOMAIN call.config) =>
        /\ LogFile \in DOMAIN fs
        /\ fs[LogFile].kind = "file"
        /\ basename(LogFile) = <<LogName>>
        /\ Parent(LogFile) = IF ConfiguredLogDir = None THEN Cwd0 \o <<"work">>
                             ELSE join(Cwd0, ConfiguredLogDir)

C6_Witness ==
    /\ pc = "constructed"
    /\ "log_dir" \in DOMAIN call.config
    /\ ConfiguredLogDir = None
    /\ Cwd0 \o <<"work", LogName>> \in DOMAIN fs

\* C7: a command that cannot be launched is not recovered: the fault leaves
\* run(), the log gets neither "Command executed successfully." nor
\* "Command terminated with error:"; the latter is logged only when a
\* process started and returned a non-zero exit code.
C7_LaunchFailurePropagates ==
    RunOver =>
        /\ Head(self.command) \notin Executables =>
              /\ pc = "raised"
              /\ err = "FileNotFoundError"
              /\ spawned = 0
              /\ ~HasTag("Command executed successfully.")
              /\ ~HasTag("Command terminated with error:")
        /\ HasTag("Command terminated with error:") =>
              spawned = 1 /\ beh.returncode # 0

C7_Witness ==
    /\ pc = "raised"
    /\ Head(self.command) \notin Executables
    /\ HasTag("Command side effects:")

\* What "no partial workspace" means at a failed construction: the working
\* directory is the original one, nothing but directories was added to the
\* disk, the log was not written and no command ran.
NothingPartial ==
    /\ pcwd = Cwd0
    /\ \A p \in DOMAIN disk0 : p \in DOMAIN fs /\ fs[p] = disk0[p]
    /\ \A p \in DOMAIN fs \ DOMAIN disk0 : fs[p].kind = "dir"
    /\ spawned = 0

C9_LogOrder ==
    (RunOver /\ spawned = 1) =>
        /\ TagsOf(Log) =
              <<"Workspace initiated at">>
              \o [i \in 1..Len(beh.stdout) |-> "stdout"]
              \o (IF beh.returncode = 0 THEN <<"Command executed successfully.">>
                  ELSE <<"Command terminated with error:", "stderr">>)
              \o TagsOf(SideEffectLines)
        /\ Log[1].paths = <<self.dir>>
        /\ \A i \in 1..Len(beh.stdout) : Log[1 + i].text = beh.stdout[i]

\* C10: the Runner's own log file is never reported as a side effect: when
\* it lies inside the workspace tree it already exists at the before
\* snapshot, so it is in before_files and not in changed_files, although
\* the command's output is appended to it.
C10_LogFileNotReported ==
    RunOver =>
        /\ \A p \in Elems(report.changed_files) \cup Elems(report.changed_dirs) :
               join(pcwd, p) # LogFile
        /\ IsUnder(LogFile, Workspace) =>
               \E p \in report.before_files : join(pcwd, p) = LogFile

C10_Witness ==
    /\ pc = "done"
    /\ IsUnder(LogFile, Workspace)
    /\ Parent(LogFile) # Workspace
    /\ Len(beh.stdout) > 0
    /\ fs[LogFile].data # preRun[LogFile].data
    /\ Len(report.changed_files) > 0

====
